---------------------------- MODULE Spec2Model ----------------------------
(***************************************************************************)
(* Model of dashboard_presentable.py: the module-level pipeline that loads *)
(* the order-line table, cleans it, derives the per-line financial columns,*)
(* folds the KPIs and runs the six group-by queries the charts are bound   *)
(* to.  One action per statement of the script, in source order.           *)
(*                                                                         *)
(* A cell of the table is <<>> when it is null (NaN / NaT) and <<v>> when  *)
(* it holds the value v.  Identifiers (order_id, sku, supplier_id,         *)
(* item_category) are integers, ordered as pandas orders group keys.       *)
(* Numbers are integers; a quotient is kept exact (Finite).  SpecAnyOrder   *)
(* is the same script with its six queries taken in any order.             *)
(***************************************************************************)
EXTENDS Integers, Sequences, FiniteSets, TLC

VARIABLES csv, df, pc, total_revenue, total_profit, profit_margin,
          avg_order_value, top_selling_skus, top_revenue_skus,
          top_suppliers_profit, orders_by_hour, sales_by_category,
          top_selling_products_revenue, done

vars == <<csv, df, pc, total_revenue, total_profit, profit_margin,
          avg_order_value, top_selling_skus, top_revenue_skus,
          top_suppliers_profit, orders_by_hour, sales_by_category,
          top_selling_products_revenue, done>>

(***************************************************************************)
(* Bounds of the model.                                                    *)
(***************************************************************************)
MaxRows == 2

WideRows == 11

(* nlargest(10): the fixed top-N limit of the four top-N queries. *)
TopN == 10

(***************************************************************************)
(* Cells, columns, numbers.                                                *)
(***************************************************************************)
NaN == <<>>

IsNull(c) == c = <<>>

NotNull(c) == c # <<>>

Val(c) == c[1]

(* a - b and a * b on cells: NaN if either operand is NaN *)
Sub(a, b) == IF IsNull(a) \/ IsNull(b) THEN NaN ELSE <<Val(a) - Val(b)>>

Mul(a, b) == IF IsNull(a) \/ IsNull(b) THEN NaN ELSE <<Val(a) * Val(b)>>

(* a table or a column given row by row, as a sequence *)
Table(rows) == SubSeq(rows, 1, Len(rows))

(* df[name]: the column as a sequence of cells *)
Column(t, name) == Table([i \in 1..Len(t) |-> t[i][name]])

(* df[name] = col: adds the column, or replaces it when it exists *)
SetColumn(t, name, col) ==
    Table([i \in 1..Len(t) |-> (name :> col[i]) @@ t[i]])

RECURSIVE SumFrom(_, _)
SumFrom(col, i) ==
    IF i > Len(col) THEN 0
    ELSE (IF IsNull(col[i]) THEN 0 ELSE Val(col[i])) + SumFrom(col, i + 1)

(* a sum that leaves the first row out *)
SeriesSumFromSecond(col) == SumFrom(col, 2)

(* Series.sum(): skipna, the sum of an all-null or empty column is 0 *)
SeriesSum(col) == SumFrom(col, 1)

(* Series.nunique(): number of distinct non-null values *)
Nunique(col) == Cardinality({Val(col[i]) : i \in {j \in 1..Len(col) : NotNull(col[j])}})

(***************************************************************************)
(* Floating-point scalars: a finite value is the exact fraction num/den    *)
(* in lowest terms with den > 0; the others are nan, inf and -inf.         *)
(***************************************************************************)
RECURSIVE Gcd(_, _)
Gcd(a, b) == IF b = 0 THEN a ELSE Gcd(b, a % b)

Abs(a) == IF a < 0 THEN -a ELSE a

Finite(n, d) ==
    LET s == IF d < 0 THEN -1 ELSE 1
        g == Gcd(Abs(n), Abs(d))
    IN  [kind |-> "num", num |-> (s * n) \div g, den |-> (s * d) \div g]

Float(n) == Finite(n, 1)

FloatNaN == [kind |-> "nan", num |-> 0, den |-> 1]

FloatInf == [kind |-> "inf", num |-> 0, den |-> 1]

FloatNegInf == [kind |-> "-inf", num |-> 0, den |-> 1]

Unbound == [kind |-> "unbound", num |-> 0, den |-> 1]

(* x - y on finite scalars (both operands are column sums) *)
FloatSub(x, y) == Finite(x.num * y.den - y.num * x.den, x.den * y.den)

(* x / y on numpy scalars: a zero divisor gives nan, inf or -inf, with a
   RuntimeWarning and no exception *)
FloatDiv(x, y) ==
    IF x.kind # "num" \/ y.kind # "num" THEN FloatNaN
    ELSE IF y.num = 0
         THEN (IF x.num = 0 THEN FloatNaN
               ELSE IF x.num > 0 THEN FloatInf ELSE FloatNegInf)
         ELSE Finite(x.num * y.den, x.den * y.num)

(* x * k for a positive integer k *)
FloatScale(x, k) == IF x.kind = "num" THEN Finite(x.num * k, x.den) ELSE x

(***************************************************************************)
(* Cleaning.                                                               *)
(***************************************************************************)
RECURSIVE KeepFirst(_, _)
KeepFirst(t, i) ==
    IF i > Len(t) THEN <<>>
    ELSE IF \E j \in 1..(i - 1) : t[j] = t[i]
         THEN KeepFirst(t, i + 1)
         ELSE <<t[i]>> \o KeepFirst(t, i + 1)

(* df.drop_duplicates(): rows equal in every column collapse to the first
   of them (null equals null), the order of the others is kept *)
DropDuplicates(t) == KeepFirst(t, 1)

(* Series.fillna(v): a new column, the receiver is not changed *)
Fillna(col, v) == [i \in 1..Len(col) |-> IF IsNull(col[i]) THEN v ELSE col[i]]

RECURSIVE SortedSeq(_)
SortedSeq(S) ==
    IF S = {} THEN <<>>
    ELSE LET m == CHOOSE x \in S : \A y \in S : x <= y
         IN  <<m>> \o SortedSeq(S \ {m})

RECURSIVE SortedValues(_, _)
(* the non-null values of a column from index i on, in ascending order *)
SortedValues(col, i) ==
    IF i > Len(col) THEN <<>>
    ELSE IF IsNull(col[i]) THEN SortedValues(col, i + 1)
    ELSE LET rest == SortedValues(col, i + 1)
             v == Val(col[i])
             k == Cardinality({j \in 1..Len(rest) : rest[j] < v})
         IN  SubSeq(rest, 1, k) \o <<v>> \o SubSeq(rest, k + 1, Len(rest))

(* Series.median(): over the non-null values; NaN when there is none.  The
   value is kept doubled so that it stays an integer. *)
MedianTimes2(col) ==
    LET s == SortedValues(col, 1)
        n == Len(s)
    IN  IF n = 0 THEN NaN
        ELSE IF n % 2 = 1 THEN <<2 * s[(n + 1) \div 2]>>
        ELSE <<s[n \div 2] + s[n \div 2 + 1]>>

(* The texts of the order_created column that are timestamps, with the
   <<hour, minute>> of the day they denote (all in the one format of the
   file); any other text is no timestamp. *)
TimestampTexts ==
    [s \in {"2024-01-01 00:00:00", "2024-01-01 05:30:00", "2024-01-01 23:59:00"} |->
        CASE s = "2024-01-01 00:00:00" -> <<0, 0>>
          [] s = "2024-01-01 05:30:00" -> <<5, 30>>
          [] s = "2024-01-01 23:59:00" -> <<23, 59>>]

Text(s) == <<[kind |-> "text", s |-> s]>>

(* pd.to_datetime(value, errors='coerce') on one cell: a null or a text that
   is no timestamp becomes NaT, a timestamp text becomes the timestamp, a
   timestamp stays what it is *)
ToDatetime(c) ==
    IF IsNull(c) THEN NaN
    ELSE IF Val(c).kind = "timestamp" THEN c
    ELSE IF Val(c).s \in DOMAIN TimestampTexts
         THEN <<[kind |-> "timestamp", at |-> TimestampTexts[Val(c).s]]>>
         ELSE NaN

(* df.dropna(subset=cols): a new table without the rows that have a null in
   one of the columns, the receiver is not changed *)
Dropna(t, cols) == SelectSeq(t, LAMBDA r : \A c \in cols : NotNull(r[c]))

(***************************************************************************)
(* Group-by queries.                                                       *)
(***************************************************************************)
(* the group keys of df.groupby(key): the non-null values of the key column,
   in ascending order (sort=True, dropna=True) *)
GroupKeys(t, key) ==
    SortedSeq({Val(t[i][key]) : i \in {j \in 1..Len(t) : NotNull(t[j][key])}})

(* the column col restricted to the rows of the group k; the other rows
   count as null *)
GroupColumn(t, key, k, col) ==
    [i \in 1..Len(t) |-> IF t[i][key] = <<k>> THEN t[i][col] ELSE NaN]

(* df.groupby(key)[cols].sum().reset_index(): one row per group, in key
   order, with the key and the skipna sum of each column of cols *)
GroupBySum(t, key, cols) ==
    LET ks == GroupKeys(t, key)
    IN  Table([g \in 1..Len(ks) |->
            (key :> ks[g]) @@
                [f \in cols |-> SeriesSum(GroupColumn(t, key, ks[g], f))]])

(* df.groupby(key)[col].count().reset_index(): one row per group, in key
   order, with the number of non-null cells of col in the group *)
GroupByCount(t, key, col) ==
    LET ks == GroupKeys(t, key)
    IN  Table([g \in 1..Len(ks) |->
            (key :> ks[g]) @@
                (col :> Cardinality({i \in 1..Len(t) :
                            t[i][key] = <<ks[g]>> /\ NotNull(t[i][col])}))])

RemoveAt(s, i) == SubSeq(s, 1, i - 1) \o SubSeq(s, i + 1, Len(s))

RECURSIVE NLargestKeepLast(_, _, _)
(* nlargest with keep='last': rows of equal col in reverse order *)
NLargestKeepLast(s, n, col) ==
    IF n = 0 \/ s = <<>> THEN <<>>
    ELSE LET i == CHOOSE i \in 1..Len(s) :
                    /\ \A j \in 1..Len(s) : s[j][col] <= s[i][col]
                    /\ \A j \in (i + 1)..Len(s) : s[j][col] < s[i][col]
         IN  <<s[i]>> \o NLargestKeepLast(RemoveAt(s, i), n - 1, col)

RECURSIVE NLargest(_, _, _)
(* nlargest(n, col), keep='first': the n rows with the largest col in
   descending order of col, rows of equal col in their order in s *)
NLargest(s, n, col) ==
    IF n = 0 \/ s = <<>> THEN <<>>
    ELSE LET i == CHOOSE i \in 1..Len(s) :
                    /\ \A j \in 1..Len(s) : s[j][col] <= s[i][col]
                    /\ \A j \in 1..(i - 1) : s[j][col] < s[i][col]
         IN  <<s[i]>> \o NLargest(RemoveAt(s, i), n - 1, col)

(* an hour extraction that files NaT under midnight *)
HourNaTAsMidnight(c) == IF IsNull(c) THEN <<0>> ELSE <<Val(c).at[1]>>

(* Series.dt.hour on one cell: null for NaT *)
Hour(c) == IF IsNull(c) THEN NaN ELSE <<Val(c).at[1]>>

(***************************************************************************)
(* The statements of the script as functions of the table.                 *)
(***************************************************************************)
(* line 13: df = df.drop_duplicates() *)
Line13(t) == DropDuplicates(t)

(* line 16: df['quantity_sold'].fillna(0), the filled column is dropped *)
Line16(t) ==
    LET filled == Fillna(Column(t, "quantity_sold"), <<0>>)
    IN  t

(* line 17: df['selling_price_per_unit'].fillna(median), dropped as well *)
Line17(t) ==
    LET filled == Fillna(Column(t, "selling_price_per_unit"),
                         MedianTimes2(Column(t, "selling_price_per_unit")))
    IN  t

(* line 18: df['purchasing_price_per_unit'].fillna(median), dropped as well *)
Line18(t) ==
    LET filled == Fillna(Column(t, "purchasing_price_per_unit"),
                         MedianTimes2(Column(t, "purchasing_price_per_unit")))
    IN  t

(* line 19: df['order_created'] = pd.to_datetime(..., errors='coerce') *)
Line19(t) ==
    SetColumn(t, "order_created",
        Table([i \in 1..Len(t) |-> ToDatetime(t[i].order_created)]))

(* the filter with its result assigned back to df *)
Line22Assigned(t) == Dropna(t, {"order_id", "sku"})

(* line 22: df.dropna(subset=['order_id', 'sku']), the result is dropped *)
Line22(t) ==
    LET kept == Dropna(t, {"order_id", "sku"})
    IN  t

(* line 25: df['profit'] = (selling - purchasing) * quantity_sold *)
Line25(t) ==
    SetColumn(t, "profit",
        [i \in 1..Len(t) |->
            Mul(Sub(t[i].selling_price_per_unit, t[i].purchasing_price_per_unit),
                t[i].quantity_sold)])

(* line 26: df['total_revenue'] = selling * quantity_sold *)
Line26(t) ==
    SetColumn(t, "total_revenue",
        [i \in 1..Len(t) |-> Mul(t[i].selling_price_per_unit, t[i].quantity_sold)])

(* line 27: df['total_cost'] = purchasing * quantity_sold *)
Line27(t) ==
    SetColumn(t, "total_cost",
        [i \in 1..Len(t) |-> Mul(t[i].purchasing_price_per_unit, t[i].quantity_sold)])

(* lines 13-27: the table the KPIs and the queries read *)
CleanAndDerive(t) ==
    Line27(Line26(Line25(Line22(Line19(Line18(Line17(Line16(Line13(t)))))))))

(* line 30 *)
TotalRevenue(t) == Float(SeriesSum(Column(t, "total_revenue")))

(* line 31 *)
TotalProfit(t) ==
    FloatSub(Float(SeriesSum(Column(t, "total_revenue"))),
             Float(SeriesSum(Column(t, "total_cost"))))

(* line 32 *)
ProfitMargin(profit, revenue) == FloatScale(FloatDiv(profit, revenue), 100)

(* line 33 *)
AvgOrderValue(revenue, t) == FloatDiv(revenue, Float(Nunique(Column(t, "order_id"))))

(* lines 30-33: the four KPIs of a derived table *)
Kpis(t) ==
    <<TotalRevenue(t), TotalProfit(t), ProfitMargin(TotalProfit(t), TotalRevenue(t)),
      AvgOrderValue(TotalRevenue(t), t)>>

(* line 36 *)
TopSellingSkus(t) ==
    NLargest(GroupBySum(t, "sku", {"quantity_sold"}), TopN, "quantity_sold")

(* line 40 *)
TopRevenueSkus(t) ==
    NLargest(GroupBySum(t, "sku", {"total_revenue", "total_cost"}), TopN, "total_revenue")

(* line 47 *)
TopSuppliersProfit(t) ==
    NLargest(GroupBySum(t, "supplier_id", {"profit"}), TopN, "profit")

(* an hour column that is added after the rows without a timestamp are
   dropped from df *)
Line51DropNaT(t) ==
    LET kept == Dropna(t, {"order_created"})
    IN  SetColumn(kept, "hour_of_day",
            [i \in 1..Len(kept) |-> Hour(kept[i].order_created)])

(* line 51: df['hour_of_day'] = df['order_created'].dt.hour *)
Line51(t) ==
    SetColumn(t, "hour_of_day", [i \in 1..Len(t) |-> Hour(t[i].order_created)])

(* line 52 *)
OrdersByHour(t) == GroupByCount(t, "hour_of_day", "order_id")

(* line 56 *)
SalesByCategory(t) == GroupBySum(t, "item_category", {"quantity_sold"})

(* line 60 *)
TopSellingProductsRevenue(t) ==
    NLargest(GroupBySum(t, "sku", {"total_revenue"}), TopN, "total_revenue")

(* lines 36-60: the result table of query q as the script computes it, the
   queries from line 51 on reading the table with its hour_of_day column *)
SourceOrderTable(q, t) ==
    CASE q = 1 -> TopSellingSkus(t)
      [] q = 2 -> TopRevenueSkus(t)
      [] q = 3 -> TopSuppliersProfit(t)
      [] q = 4 -> OrdersByHour(Line51(t))
      [] q = 5 -> SalesByCategory(Line51(t))
      [] q = 6 -> TopSellingProductsRevenue(Line51(t))

(***************************************************************************)
(* The input tables.                                                       *)
(***************************************************************************)
Row(o, s, u, c, q, sp, pp, at) ==
    [order_id |-> o, sku |-> s, supplier_id |-> u, item_category |-> c,
     quantity_sold |-> q, selling_price_per_unit |-> sp,
     purchasing_price_per_unit |-> pp, order_created |-> at]

(* <<order_id, sku, supplier_id, item_category>> *)
KeyCombos ==
    { <<<<1>>, <<1>>, <<1>>, <<1>>>>,
      <<<<2>>, <<2>>, <<2>>, <<2>>>>,
      <<NaN,   <<1>>, <<2>>, <<1>>>>,
      <<<<1>>, NaN,   <<1>>, <<2>>>>,
      <<<<2>>, <<2>>, NaN,   NaN>> }

(* <<quantity_sold, selling_price_per_unit, purchasing_price_per_unit>> *)
MeasureCombos ==
    { <<<<2>>, <<3>>, <<1>>>>,
      <<<<0>>, <<3>>, <<1>>>>,
      <<NaN,   <<3>>, <<1>>>>,
      <<<<2>>, NaN,   <<1>>>>,
      <<<<2>>, <<3>>, NaN>>,
      <<<<1>>, <<0>>, <<2>>>> }

(* order_created: an empty field, a text that is no timestamp (and none of
   the texts read_csv reads as null), timestamps *)
Times == {NaN, Text("unknown"), Text("2024-01-01 00:00:00"), Text("2024-01-01 23:59:00")}

(* every key combination and order_created on a line of 2 units at price 3
   and cost 1, and every measure combination on a line of order 1, sku 1,
   supplier 1 with a timestamp *)
SmallRows ==
    {Row(k[1], k[2], k[3], k[4], <<2>>, <<3>>, <<1>>, at) :
        k \in KeyCombos, at \in Times}
    \cup
    {Row(<<1>>, <<1>>, <<1>>, <<1>>, m[1], m[2], m[3], Text("2024-01-01 23:59:00")) :
        m \in MeasureCombos}

(* tables of 1..MaxRows rows, duplicates and every row order included *)
SmallTables == UNION {[1..n -> SmallRows] : n \in 1..MaxRows}

(* tables of WideRows lines with one sku, supplier and order each, listed in
   descending sku order; line i is of kind 1 (1 unit, price 2, cost 1) or of
   kind 2 (2 units, price 3, cost 3), the lines from the eighth on being of
   one kind *)
WideRow(i, kind) ==
    Row(<<i>>, <<WideRows + 1 - i>>, <<i>>, <<1 + (i % 2)>>,
        <<kind>>, <<kind + 1>>, <<2 * kind - 1>>,
        IF i % 3 = 0 THEN Text("2024-01-01 05:30:00")
        ELSE IF i % 3 = 1 THEN Text("2024-01-01 23:59:00") ELSE Text("unknown"))

WideTables ==
    {[i \in 1..WideRows |-> WideRow(i, IF i < 8 THEN f[i] ELSE f[8])] :
        f \in [1..8 -> {1, 2}]}

(***************************************************************************)
(* The run of the script.                                                  *)
(***************************************************************************)
kpis == <<total_revenue, total_profit, profit_margin, avg_order_value>>

tables == <<top_selling_skus, top_revenue_skus, top_suppliers_profit,
            orders_by_hour, sales_by_category, top_selling_products_revenue>>

(* line 9: the table is loaded from the file, nothing else is bound yet *)
Loaded(T) ==
    /\ csv \in T
    /\ df = csv
    /\ pc = "line13"
    /\ total_revenue = Unbound
    /\ total_profit = Unbound
    /\ profit_margin = Unbound
    /\ avg_order_value = Unbound
    /\ top_selling_skus = <<>>
    /\ top_revenue_skus = <<>>
    /\ top_suppliers_profit = <<>>
    /\ orders_by_hour = <<>>
    /\ sales_by_category = <<>>
    /\ top_selling_products_revenue = <<>>
    /\ done = {}

Init == Loaded(SmallTables \cup WideTables)

(* a statement that rebinds or changes df only *)
TableStep(here, next, t) ==
    /\ pc = here
    /\ df' = t
    /\ pc' = next
    /\ UNCHANGED <<csv, kpis, tables, done>>

DropDuplicatesStep == TableStep("line13", "line16", Line13(df))

FillQuantityStep == TableStep("line16", "line17", Line16(df))

FillSellingPriceStep == TableStep("line17", "line18", Line17(df))

FillPurchasingPriceStep == TableStep("line18", "line19", Line18(df))

ToDatetimeStep == TableStep("line19", "line22", Line19(df))

DropnaStep == TableStep("line22", "line25", Line22(df))

ProfitStep == TableStep("line25", "line26", Line25(df))

RevenueStep == TableStep("line26", "line27", Line26(df))

CostStep == TableStep("line27", "line30", Line27(df))

TotalRevenueStep ==
    /\ pc = "line30"
    /\ total_revenue' = TotalRevenue(df)
    /\ pc' = "line31"
    /\ UNCHANGED <<csv, df, total_profit, profit_margin, avg_order_value, tables, done>>

TotalProfitStep ==
    /\ pc = "line31"
    /\ total_profit' = TotalProfit(df)
    /\ pc' = "line32"
    /\ UNCHANGED <<csv, df, total_revenue, profit_margin, avg_order_value, tables, done>>

ProfitMarginStep ==
    /\ pc = "line32"
    /\ profit_margin' = ProfitMargin(total_profit, total_revenue)
    /\ pc' = "line33"
    /\ UNCHANGED <<csv, df, total_revenue, total_profit, avg_order_value, tables, done>>

AvgOrderValueStep ==
    /\ pc = "line33"
    /\ avg_order_value' = AvgOrderValue(total_revenue, df)
    /\ pc' = "queries"
    /\ UNCHANGED <<csv, df, total_revenue, total_profit, profit_margin, tables, done>>

(* query q has its turn: the queries are under way and q has not run *)
Pending(q) == pc = "queries" /\ q \notin done

(* lines 36-37 *)
Visualization1 ==
    /\ Pending(1)
    /\ top_selling_skus' = TopSellingSkus(df)
    /\ done' = done \cup {1}
    /\ UNCHANGED <<csv, df, pc, kpis, top_revenue_skus, top_suppliers_profit,
                   orders_by_hour, sales_by_category, top_selling_products_revenue>>

(* lines 40-44 *)
Visualization2 ==
    /\ Pending(2)
    /\ top_revenue_skus' = TopRevenueSkus(df)
    /\ done' = done \cup {2}
    /\ UNCHANGED <<csv, df, pc, kpis, top_selling_skus, top_suppliers_profit,
                   orders_by_hour, sales_by_category, top_selling_products_revenue>>

(* lines 47-48 *)
Visualization3 ==
    /\ Pending(3)
    /\ top_suppliers_profit' = TopSuppliersProfit(df)
    /\ done' = done \cup {3}
    /\ UNCHANGED <<csv, df, pc, kpis, top_selling_skus, top_revenue_skus,
                   orders_by_hour, sales_by_category, top_selling_products_revenue>>

(* lines 51-53: the query adds the hour_of_day column and groups by it *)
Visualization4 ==
    /\ Pending(4)
    /\ df' = Line51(df)
    /\ orders_by_hour' = OrdersByHour(df')
    /\ done' = done \cup {4}
    /\ UNCHANGED <<csv, pc, kpis, top_selling_skus, top_revenue_skus,
                   top_suppliers_profit, sales_by_category, top_selling_products_revenue>>

(* lines 56-57 *)
Visualization5 ==
    /\ Pending(5)
    /\ sales_by_category' = SalesByCategory(df)
    /\ done' = done \cup {5}
    /\ UNCHANGED <<csv, df, pc, kpis, top_selling_skus, top_revenue_skus,
                   top_suppliers_profit, orders_by_hour, top_selling_products_revenue>>

(* lines 60-61 *)
Visualization6 ==
    /\ Pending(6)
    /\ top_selling_products_revenue' = TopSellingProductsRevenue(df)
    /\ done' = done \cup {6}
    /\ UNCHANGED <<csv, df, pc, kpis, top_selling_skus, top_revenue_skus,
                   top_suppliers_profit, orders_by_hour, sales_by_category>>

Cleaning ==
    \/ DropDuplicatesStep
    \/ FillQuantityStep
    \/ FillSellingPriceStep
    \/ FillPurchasingPriceStep
    \/ ToDatetimeStep
    \/ DropnaStep

Derivation ==
    \/ ProfitStep
    \/ RevenueStep
    \/ CostStep

KpiFold ==
    \/ TotalRevenueStep
    \/ TotalProfitStep
    \/ ProfitMarginStep
    \/ AvgOrderValueStep

(* the queries before q in the script have run *)
InTurn(q) == \A p \in 1..(q - 1) : p \in done

(* the script: every statement in source order *)
Next ==
    \/ Cleaning
    \/ Derivation
    \/ KpiFold
    \/ InTurn(1) /\ Visualization1
    \/ InTurn(2) /\ Visualization2
    \/ InTurn(3) /\ Visualization3
    \/ InTurn(4) /\ Visualization4
    \/ InTurn(5) /\ Visualization5
    \/ InTurn(6) /\ Visualization6

Spec == Init /\ [][Next]_vars

(* the same script with the six queries taken in any order *)
NextAnyOrder ==
    \/ Cleaning
    \/ Derivation
    \/ KpiFold
    \/ Visualization1
    \/ Visualization2
    \/ Visualization3
    \/ Visualization4
    \/ Visualization5
    \/ Visualization6

(* the small rows with no null price, no zero, and an empty field or one
   timestamp as order_created *)
PlainRows ==
    {r \in SmallRows :
        /\ r.quantity_sold # <<0>>
        /\ r.selling_price_per_unit = <<3>>
        /\ r.purchasing_price_per_unit = <<1>>
        /\ r.order_created \in {NaN, Text("2024-01-01 23:59:00")}}

PlainTables == UNION {[1..n -> PlainRows] : n \in 1..MaxRows}

InitAnyOrder == Loaded(PlainTables \cup WideTables)

SpecAnyOrder == InitAnyOrder /\ [][NextAnyOrder]_vars

(***************************************************************************)
(* Vocabulary of the properties.                                           *)
(***************************************************************************)
(* the line of the statement that runs next; 36 once the queries are under
   way *)
LineNo ==
    CASE pc = "line13" -> 13 [] pc = "line16" -> 16 [] pc = "line17" -> 17
      [] pc = "line18" -> 18 [] pc = "line19" -> 19 [] pc = "line22" -> 22
      [] pc = "line25" -> 25 [] pc = "line26" -> 26 [] pc = "line27" -> 27
      [] pc = "line30" -> 30 [] pc = "line31" -> 31 [] pc = "line32" -> 32
      [] pc = "line33" -> 33 [] pc = "queries" -> 36

(* the statement at line n has run *)
Ran(n) == LineNo > n

Rows(t) == 1..Len(t)

RECURSIVE SumOver(_, _)
(* the sum of f over the finite set S *)
SumOver(S, f) ==
    IF S = {} THEN 0
    ELSE LET x == CHOOSE x \in S : TRUE
         IN  f[x] + SumOver(S \ {x}, f)

(* the sum of the non-null cells of column col over the rows I of t *)
CellSum(t, I, col) ==
    SumOver({i \in I : NotNull(t[i][col])},
            [i \in Rows(t) |-> IF NotNull(t[i][col]) THEN Val(t[i][col]) ELSE 0])

(* the rows of t whose key is k *)
RowsOfGroup(t, key, k) == {i \in Rows(t) : t[i][key] = <<k>>}

(* the groups of t by key *)
Groups(t, key) == {Val(t[i][key]) : i \in {j \in Rows(t) : NotNull(t[j][key])}}

(* every line of the result table T carries the sum of col over all the rows
   of its group, and no group appears twice *)
GroupSumsExact(T, t, key, col) ==
    /\ \A a \in Rows(T) : T[a][key] \in Groups(t, key)
    /\ \A a \in Rows(T) : T[a][col] = CellSum(t, RowsOfGroup(t, key, T[a][key]), col)
    /\ \A a, b \in Rows(T) : a # b => T[a][key] # T[b][key]

(* the result table T holds a line for every group *)
AllGroups(T, t, key) == {T[a][key] : a \in Rows(T)} = Groups(t, key)

Min(a, b) == IF a < b THEN a ELSE b

(* the deduplicated input with its timestamps normalized: the table as it
   stands when the critical-field filter is reached *)
BeforeFilter == Line19(Line13(csv))

(* the four KPIs are folds over every row of the working table *)
KpisCountEveryRow ==
    /\ Ran(30) => total_revenue = Float(CellSum(df, Rows(df), "total_revenue"))
    /\ Ran(31) => total_profit = Float(CellSum(df, Rows(df), "total_revenue")
                                       - CellSum(df, Rows(df), "total_cost"))
    /\ Ran(33) => avg_order_value =
            FloatDiv(total_revenue, Float(Cardinality(Groups(df, "order_id"))))

(* a finished query other than orders_by_hour carries, for every group it
   shows, the sum over all the rows of the group, and shows every group
   unless it is cut at TopN lines *)
CountsEveryRow(T, key, col) ==
    /\ GroupSumsExact(T, df, key, col)
    /\ Len(T) < TopN => AllGroups(T, df, key)

OtherTablesCountEveryRow ==
    /\ 1 \in done => CountsEveryRow(top_selling_skus, "sku", "quantity_sold")
    /\ 2 \in done => /\ CountsEveryRow(top_revenue_skus, "sku", "total_revenue")
                     /\ CountsEveryRow(top_revenue_skus, "sku", "total_cost")
    /\ 3 \in done => CountsEveryRow(top_suppliers_profit, "supplier_id", "profit")
    /\ 5 \in done => /\ CountsEveryRow(sales_by_category, "item_category", "quantity_sold")
                     /\ AllGroups(sales_by_category, df, "item_category")
    /\ 6 \in done => CountsEveryRow(top_selling_products_revenue, "sku", "total_revenue")

(* the hour a raw order_created cell denotes, <<>> when it denotes none *)
DenotedHour(c) ==
    IF NotNull(c) /\ Val(c).kind = "text" /\ Val(c).s \in DOMAIN TimestampTexts
    THEN <<TimestampTexts[Val(c).s][1]>>
    ELSE <<>>

(***************************************************************************)
(* C1: once duplicate removal, the null policy and timestamp normalization *)
(* have run, every row of the working table has a non-null quantity_sold,  *)
(* selling_price_per_unit and purchasing_price_per_unit.                   *)
(***************************************************************************)
C1_MeasuresNonNull ==
    Ran(19) =>
        \A i \in Rows(df) :
            /\ NotNull(df[i].quantity_sold)
            /\ NotNull(df[i].selling_price_per_unit)
            /\ NotNull(df[i].purchasing_price_per_unit)

(***************************************************************************)
(* C2: whenever the KPI total_revenue is 0 (with or without a distinct     *)
(* order_id), profit_margin is the sentinel 0, not NaN and not infinite.   *)
(***************************************************************************)
C2_MarginZeroWhenDegenerate ==
    Ran(33) /\ total_revenue = Float(0) => profit_margin = Float(0)

(***************************************************************************)
(* C5: the KPI total_revenue is exactly the sum, over all the rows of the  *)
(* working table, of the per-record total_revenue, a null adding nothing.  *)
(***************************************************************************)
C5_TotalRevenueIsRowSum ==
    Ran(30) => total_revenue = Float(CellSum(df, Rows(df), "total_revenue"))

C5_Witness ==
    /\ Ran(30)
    /\ \E i, j \in Rows(df) :
        /\ IsNull(df[i].total_revenue)
        /\ NotNull(df[j].total_revenue)
        /\ Val(df[j].total_revenue) > 0
    /\ total_revenue.num > 0

(***************************************************************************)
(* C7: on every row of the working table the three derived fields are     *)
(* defined numbers with profit = (selling - purchasing) * quantity,        *)
(* total_revenue = selling * quantity, total_cost = purchasing * quantity, *)
(* hence profit = total_revenue - total_cost.                              *)
(***************************************************************************)
C7_DerivedFieldsDefined ==
    Ran(27) =>
        \A i \in Rows(df) :
            /\ NotNull(df[i].profit)
            /\ NotNull(df[i].total_revenue)
            /\ NotNull(df[i].total_cost)
            /\ Val(df[i].profit) =
                (Val(df[i].selling_price_per_unit) - Val(df[i].purchasing_price_per_unit))
                    * Val(df[i].quantity_sold)
            /\ Val(df[i].total_revenue) =
                Val(df[i].selling_price_per_unit) * Val(df[i].quantity_sold)
            /\ Val(df[i].total_cost) =
                Val(df[i].purchasing_price_per_unit) * Val(df[i].quantity_sold)
            /\ Val(df[i].profit) = Val(df[i].total_revenue) - Val(df[i].total_cost)

(***************************************************************************)
(* C10: the KPI total_profit equals the sum of the per-record profit over  *)
(* all rows, and so the sum of the profit of all supplier groups when no   *)
(* supplier_id is null.                                                    *)
(***************************************************************************)
C10_TotalProfitIsRowSum ==
    Ran(31) =>
        /\ total_profit = Float(CellSum(df, Rows(df), "profit"))
        /\ (\A i \in Rows(df) : NotNull(df[i].supplier_id)) =>
                LET G == GroupBySum(df, "supplier_id", {"profit"})
                IN  total_profit = Float(SumOver(Rows(G), [a \in Rows(G) |-> G[a].profit]))

(***************************************************************************)
(* C6: the cleaning and derivation stage is idempotent: applied to the     *)
(* table it produced, it yields the same table and the same four KPIs.     *)
(***************************************************************************)
C6_StageIdempotent ==
    pc = "queries" /\ done = {} =>
        /\ CleanAndDerive(df) = df
        /\ Kpis(CleanAndDerive(df)) = kpis

C4_HoursAndUnparseableRows ==
    /\ 4 \in done =>
        LET raw == Line13(csv)
        IN  /\ \A a \in Rows(orders_by_hour) : orders_by_hour[a].hour_of_day \in 0..23
            /\ \A a, b \in Rows(orders_by_hour) :
                    a < b => orders_by_hour[a].hour_of_day < orders_by_hour[b].hour_of_day
            /\ {orders_by_hour[a].hour_of_day : a \in Rows(orders_by_hour)} =
                    {h \in 0..23 : \E i \in Rows(raw) : DenotedHour(raw[i].order_created) = <<h>>}
            /\ \A a \in Rows(orders_by_hour) :
                    orders_by_hour[a].order_id =
                        Cardinality({i \in Rows(raw) :
                            /\ DenotedHour(raw[i].order_created) = <<orders_by_hour[a].hour_of_day>>
                            /\ NotNull(raw[i].order_id)})
    /\ Ran(22) => Len(df) = Len(Line13(csv))
    /\ KpisCountEveryRow
    /\ OtherTablesCountEveryRow

C4_Witness ==
    /\ done = 1..6
    /\ Len(orders_by_hour) > 0
    /\ \E i \in Rows(df) :
        /\ IsNull(df[i].order_created)
        /\ NotNull(csv[i].order_created)
        /\ NotNull(df[i].order_id)
        /\ NotNull(df[i].sku)
        /\ NotNull(df[i].total_revenue)
        /\ Val(df[i].total_revenue) > 0
        /\ \E a \in Rows(top_selling_products_revenue) :
            /\ top_selling_products_revenue[a].sku = Val(df[i].sku)
            /\ top_selling_products_revenue[a].total_revenue >= Val(df[i].total_revenue)
    /\ SumOver(Rows(orders_by_hour), [a \in Rows(orders_by_hour) |-> orders_by_hour[a].order_id])
            < Cardinality({i \in Rows(df) : NotNull(df[i].order_id)})

(***************************************************************************)
(* C3: each of the four top-N tables has min(10, number of groups) lines,  *)
(* in non-increasing order of its primary measure; no group left out has a *)
(* larger measure than a group kept; groups of equal measure are chosen    *)
(* and ordered by group key.                                               *)
(***************************************************************************)
TopNOrdered(T, key, col) ==
    /\ GroupSumsExact(T, df, key, col)
    /\ Len(T) = Min(10, Cardinality(Groups(df, key)))
    /\ \A a, b \in Rows(T) :
            a < b => /\ T[a][col] >= T[b][col]
                     /\ T[a][col] = T[b][col] => T[a][key] < T[b][key]
    /\ \A g \in Groups(df, key) \ {T[a][key] : a \in Rows(T)} :
            \A a \in Rows(T) :
                LET m == CellSum(df, RowsOfGroup(df, key, g), col)
                IN  /\ m <= T[a][col]
                    /\ m = T[a][col] => T[a][key] < g

C3_TopNTables ==
    /\ 1 \in done => TopNOrdered(top_selling_skus, "sku", "quantity_sold")
    /\ 2 \in done => TopNOrdered(top_revenue_skus, "sku", "total_revenue")
    /\ 3 \in done => TopNOrdered(top_suppliers_profit, "supplier_id", "profit")
    /\ 6 \in done => TopNOrdered(top_selling_products_revenue, "sku", "total_revenue")

(* more than ten groups, and a group left out that ties with a group kept *)
C3_Witness ==
    /\ done = 1..6
    /\ Len(top_selling_skus) = 10
    /\ \E g \in Groups(df, "sku") \ {top_selling_skus[a].sku : a \in Rows(top_selling_skus)} :
            CellSum(df, RowsOfGroup(df, "sku", g), "quantity_sold")
                = top_selling_skus[10].quantity_sold
    /\ top_selling_skus[1].quantity_sold > top_selling_skus[10].quantity_sold
    /\ top_suppliers_profit[1].profit > top_suppliers_profit[10].profit

(* the table without the column name *)
WithoutColumn(t, name) ==
    [i \in Rows(t) |-> [f \in DOMAIN t[i] \ {name} |-> t[i][f]]]

(***************************************************************************)
(* C8: the six queries are mutually independent: run in any order, each    *)
(* yields the table the source order yields, and none changes a row or a   *)
(* column of the cleaned table that another query or the KPI fold reads    *)
(* (the one write is the hour_of_day column, there once orders_by_hour ran)*)
(***************************************************************************)
C8_QueriesIndependent ==
    pc = "queries" =>
        LET clean == CleanAndDerive(csv)
        IN  /\ WithoutColumn(df, "hour_of_day") = clean
            /\ \A i \in Rows(df) : "hour_of_day" \in DOMAIN df[i] <=> 4 \in done
            /\ kpis = Kpis(clean)
            /\ 1 \in done => top_selling_skus = SourceOrderTable(1, clean)
            /\ 2 \in done => top_revenue_skus = SourceOrderTable(2, clean)
            /\ 3 \in done => top_suppliers_profit = SourceOrderTable(3, clean)
            /\ 4 \in done => orders_by_hour = SourceOrderTable(4, clean)
            /\ 5 \in done => sales_by_category = SourceOrderTable(5, clean)
            /\ 6 \in done => top_selling_products_revenue = SourceOrderTable(6, clean)

(* the queries after orders_by_hour in the script have run and it has not,
   on a table with a row that has no timestamp *)
C8_Witness ==
    /\ pc = "queries"
    /\ done = {5, 6}
    /\ Len(sales_by_category) > 0
    /\ Len(top_selling_products_revenue) > 0
    /\ \E i, j \in Rows(df) :
        /\ IsNull(df[i].order_created)
        /\ NotNull(df[i].item_category)
        /\ NotNull(df[i].quantity_sold)
        /\ Val(df[i].quantity_sold) > 0
        /\ NotNull(df[j].order_created)

=============================================================================
